---- MODULE Spec2Model ----
(***************************************************************************)
(* Model of scripts/import_assets.py: the asset importer that turns the    *)
(* food_*.png files of a source directory into <name>.imageset entries of  *)
(* an asset catalog.  File names are sequences of one-character strings so *)
(* that endswith, startswith and str.replace are computed, not assumed.    *)
(* The filesystem is modelled at the granularity of the script's calls,    *)
(* except shutil.rmtree, which is the scan / unlink* / rmdir sequence of   *)
(* its implementation.                                                     *)
(***************************************************************************)
EXTENDS Integers, Sequences, FiniteSets, TLC

VARIABLES
    argc,          \* len(sys.argv)
    source,        \* os.listdir(source_dir), in listing order
    targetExists,  \* os.path.exists(target_dir)
    target,        \* target_dir: entry name -> [kind, files]
    target0,       \* target as it was when the current run started
    pc,            \* per run: position in main()
    all_files,     \* per run: the list built at line 23
    idx,           \* per run: position of the for loop in all_files
    pending,       \* per run: entries scanned by rmtree and not yet removed
    fdValid,       \* per run: rmtree's directory fd still names the entry
    err,           \* per run: how the run ended
    written,       \* per run: entries whose Contents.json the run has written
    runs,          \* number of runs started one after another
    faulted        \* an environment failure has been injected

vars == <<argc, source, targetExists, target, target0, pc, all_files, idx,
          pending, fdValid, err, written, runs, faulted>>

----------------------------------------------------------------------------
(* Bounds *)

MaxArgc == 4
MaxFiles == 2
MaxConcFiles == 1
MaxPre == 1
MaxRuns == 2

Procs == {1, 2}

----------------------------------------------------------------------------
(* Strings *)

PNG == <<".", "p", "n", "g">>
FOOD == <<"f", "o", "o", "d", "_">>
IMAGESET == <<".", "i", "m", "a", "g", "e", "s", "e", "t">>

FoodA == <<"f", "o", "o", "d", "_", "a", ".", "p", "n", "g">>
FoodAPngPng == <<"f", "o", "o", "d", "_", "a", ".", "p", "n", "g", ".", "p", "n", "g">>
FoodB == <<"f", "o", "o", "d", "_", "b", ".", "p", "n", "g">>
Logo == <<"l", "o", "g", "o", ".", "p", "n", "g">>
Notes == <<"n", "o", "t", "e", "s", ".", "t", "x", "t">>
CatalogContents == <<"C", "o", "n", "t", "e", "n", "t", "s", ".", "j", "s", "o", "n">>

FileNames == {FoodA, FoodAPngPng, FoodB, Logo, Notes}

\* the bytes of each source file; the importer never looks inside a file, so
\* every file has bytes of its own, different from anything in target_dir
FileData(filename) ==
    CASE filename = FoodA -> "bytes of food_a.png"
      [] filename = FoodAPngPng -> "bytes of food_a.png.png"
      [] filename = FoodB -> "bytes of food_b.png"
      [] filename = Logo -> "bytes of logo.png"
      [] OTHER -> "bytes of notes.txt"

\* str.endswith
EndsWith(s, suffix) ==
    /\ Len(s) >= Len(suffix)
    /\ SubSeq(s, Len(s) - Len(suffix) + 1, Len(s)) = suffix

\* str.startswith
StartsWith(s, prefix) ==
    /\ Len(s) >= Len(prefix)
    /\ SubSeq(s, 1, Len(prefix)) = prefix

\* str.replace(old, new) for a non-empty old: every non-overlapping
\* occurrence, scanning from the left
RECURSIVE Replace(_, _, _)
Replace(s, old, new) ==
    IF Len(s) < Len(old) THEN s
    ELSE IF SubSeq(s, 1, Len(old)) = old
         THEN new \o Replace(SubSeq(s, Len(old) + 1, Len(s)), old, new)
         ELSE <<s[1]>> \o Replace(Tail(s), old, new)

\* line 30: asset_name = filename.replace(".png", "")
AssetName(filename) == Replace(filename, PNG, <<>>)

\* line 34: the entry of target_dir named f"{asset_name}.imageset"
AssetPath(asset_name) == asset_name \o IMAGESET

\* the identifier as the specification defines it: the file name with its
\* extension removed, and nothing else
Stem(filename) ==
    IF EndsWith(filename, PNG)
    THEN SubSeq(filename, 1, Len(filename) - Len(PNG))
    ELSE filename

----------------------------------------------------------------------------
(* Descriptor *)

Scales == <<"1x", "2x", "3x">>

\* lines 46-54: one record appended per scale
RECURSIVE ImagesJson(_)
ImagesJson(scales) ==
    IF scales = <<>> THEN <<>>
    ELSE <<[idiom |-> "universal", scale |-> Head(scales), filename |-> "image.png"]>>
         \o ImagesJson(Tail(scales))

\* mutant: the loop of line 49 runs over "1x" and "2x" only
ContentsTwoScales ==
    [images |-> ImagesJson(SubSeq(Scales, 1, 2)),
     info |-> [version |-> 1, author |-> "xcode"]]

\* lines 56-62
Contents ==
    [images |-> ImagesJson(Scales), info |-> [version |-> 1, author |-> "xcode"]]

\* a descriptor left by an older tool: one variant only
StaleContents ==
    [images |-> <<[idiom |-> "universal", scale |-> "1x", filename |-> "old.png"]>>,
     info |-> [version |-> 1, author |-> "xcode"]]

\* what a write that failed half-way leaves: a file with no JSON in it
TruncatedContents ==
    [images |-> <<>>, info |-> [version |-> 0, author |-> ""]]

----------------------------------------------------------------------------
(* Filesystem *)

NoFiles == [n \in {} |-> "none"]
Absent == [kind |-> "absent", files |-> NoFiles]
RegularFile == [kind |-> "file", files |-> NoFiles]
EmptyDir == [kind |-> "dir", files |-> NoFiles]

\* an entry of an earlier import with a file and an (empty) sub-directory
\* somebody added by hand
StaleDir ==
    [kind |-> "dir",
     files |-> [n \in {"image.png", "Contents.json", "stray.txt", "backup"} |->
                  CASE n = "image.png" -> "old bytes"
                    [] n = "Contents.json" -> StaleContents
                    [] n = "stray.txt" -> "stray bytes"
                    [] OTHER -> "<dir>"]]

PreEntries == {RegularFile, StaleDir}

\* the names of target_dir the model follows: the entry of every file name as
\* the code derives it and as the specification derives it, and the
\* catalog's own Contents.json
EntryNames ==
    {AssetPath(AssetName(f)) : f \in FileNames}
        \cup {AssetPath(Stem(f)) : f \in FileNames}

TargetNames == EntryNames \cup {CatalogContents}

WithFile(entry, name, content) ==
    [entry EXCEPT !.files =
        [n \in DOMAIN entry.files \cup {name} |->
            IF n = name THEN content ELSE entry.files[n]]]

WithoutFile(entry, name) ==
    [entry EXCEPT !.files = [n \in DOMAIN entry.files \ {name} |-> entry.files[n]]]

Complete(entry) ==
    /\ entry.kind = "dir"
    /\ {"image.png", "Contents.json"} \subseteq DOMAIN entry.files

----------------------------------------------------------------------------
(* Initial states *)

Injective(s) == \A i, j \in DOMAIN s : s[i] = s[j] => i = j

\* the directory listings of at most n distinct files, in any order
Listings(n) ==
    UNION {{s \in [1..k -> FileNames] : Injective(s)} : k \in 0..n}

\* target_dir with its catalog Contents.json and at most MaxPre entries
Targets ==
    {[n \in TargetNames |->
        IF n = CatalogContents THEN RegularFile
        ELSE IF n \in S THEN f[n] ELSE Absent] :
        <<S, f>> \in UNION {{<<T, g>> : g \in [T -> PreEntries]} :
                      T \in {U \in SUBSET EntryNames : Cardinality(U) <= MaxPre}}}

NoTarget == [n \in TargetNames |-> Absent]

InitWith(argcs, n, started) ==
    /\ argc \in argcs
    /\ source \in Listings(n)
    /\ targetExists \in BOOLEAN
    /\ target \in (IF targetExists THEN Targets ELSE {NoTarget})
    /\ target0 = target
    /\ pc = [p \in Procs |-> IF p \in started THEN "start" ELSE "off"]
    /\ all_files = [p \in Procs |-> <<>>]
    /\ idx = [p \in Procs |-> 0]
    /\ pending = [p \in Procs |-> {}]
    /\ fdValid = [p \in Procs |-> FALSE]
    /\ err = [p \in Procs |-> "none"]
    /\ written = [p \in Procs |-> {}]
    /\ runs = 1
    /\ faulted = FALSE

\* one run at a time
Init == InitWith(1..MaxArgc, MaxFiles, {1})

\* two runs started together on the same command line, with one argument or
\* with two
ConcInit == InitWith({2, 3}, MaxConcFiles, Procs)

----------------------------------------------------------------------------
(* main() *)

Cur(p) == all_files[p][idx[p]]

\* line 34: asset_path of the file the loop is at
Path(p) == AssetPath(AssetName(Cur(p)))

Goto(p, label) == pc' = [pc EXCEPT ![p] = label]

\* sys.exit(1) after a message
Exit1(p, why) ==
    /\ Goto(p, "exit")
    /\ err' = [err EXCEPT ![p] = why]

\* an exception nothing catches: traceback, exit status 1
Raise(p) == Exit1(p, "exception")

\* the exit status of a run that has ended
ExitCode(p) == IF err[p] = "none" THEN 0 ELSE 1

\* lines 9-14
CheckArgs(p) ==
    /\ pc[p] = "start"
    /\ IF argc < 3
       THEN Exit1(p, "usage")
       ELSE Goto(p, "target_check") /\ UNCHANGED err
    /\ UNCHANGED <<argc, source, targetExists, target, target0, all_files, idx,
                   pending, fdValid, written, runs, faulted>>

\* mutant: the check of lines 16-18 is missing
CheckTargetMissing(p) ==
    /\ pc[p] = "target_check"
    /\ Goto(p, "list")
    /\ UNCHANGED <<argc, source, targetExists, target, target0, all_files, idx,
                   pending, fdValid, err, written, runs, faulted>>

\* lines 16-18
CheckTarget(p) ==
    /\ pc[p] = "target_check"
    /\ IF ~targetExists
       THEN Exit1(p, "target_missing")
       ELSE Goto(p, "list") /\ UNCHANGED err
    /\ UNCHANGED <<argc, source, targetExists, target, target0, all_files, idx,
                   pending, fdValid, written, runs, faulted>>

\* line 23: all_files = [f for f in os.listdir(source_dir) if f.endswith(".png")]
ListSource(p) ==
    /\ pc[p] = "list"
    /\ all_files' = [all_files EXCEPT ![p] =
                        SelectSeq(source, LAMBDA f : EndsWith(f, PNG))]
    /\ idx' = [idx EXCEPT ![p] = 1]
    /\ Goto(p, "loop")
    /\ UNCHANGED <<argc, source, targetExists, target, target0, pending,
                   fdValid, err, written, runs, faulted>>

\* mutant: a name without the prefix ends the run instead of the iteration
SkipFileAborts(p) ==
    /\ pc[p] = "loop"
    /\ idx[p] <= Len(all_files[p])
    /\ ~StartsWith(Cur(p), FOOD)
    /\ Exit1(p, "exception")
    /\ UNCHANGED <<argc, source, targetExists, target, target0, all_files, idx,
                   pending, fdValid, written, runs, faulted>>

\* lines 26-28: a name without the prefix is skipped
SkipFile(p) ==
    /\ pc[p] = "loop"
    /\ idx[p] <= Len(all_files[p])
    /\ ~StartsWith(Cur(p), FOOD)
    /\ idx' = [idx EXCEPT ![p] = idx[p] + 1]
    /\ UNCHANGED <<argc, source, targetExists, target, target0, pc, all_files,
                   pending, fdValid, err, written, runs, faulted>>

\* lines 26-34: a name with the prefix is processed
AcceptFile(p) ==
    /\ pc[p] = "loop"
    /\ idx[p] <= Len(all_files[p])
    /\ StartsWith(Cur(p), FOOD)
    /\ Goto(p, "exists")
    /\ UNCHANGED <<argc, source, targetExists, target, target0, all_files, idx,
                   pending, fdValid, err, written, runs, faulted>>

\* mutant: the cleanup of lines 37-38 is missing
CheckExistsNoCleanup(p) ==
    /\ pc[p] = "exists"
    /\ Goto(p, "makedirs")
    /\ UNCHANGED <<argc, source, targetExists, target, target0, all_files, idx,
                   pending, fdValid, err, written, runs, faulted>>

\* line 37: if os.path.exists(asset_path)
CheckExists(p) ==
    /\ pc[p] = "exists"
    /\ IF target[Path(p)].kind # "absent"
       THEN Goto(p, "rmtree")
       ELSE Goto(p, "makedirs")
    /\ UNCHANGED <<argc, source, targetExists, target, target0, all_files, idx,
                   pending, fdValid, err, written, runs, faulted>>

\* line 38, shutil.rmtree: lstat, open and scandir of the top directory.
\* A path that is gone, or that is not a directory, raises.
RmtreeOpen(p) ==
    /\ pc[p] = "rmtree"
    /\ IF target[Path(p)].kind = "dir"
       THEN /\ pending' = [pending EXCEPT ![p] = DOMAIN target[Path(p)].files]
            /\ fdValid' = [fdValid EXCEPT ![p] = TRUE]
            /\ Goto(p, "rmtree_entries")
            /\ UNCHANGED err
       ELSE /\ Raise(p)
            /\ UNCHANGED <<pending, fdValid>>
    /\ UNCHANGED <<argc, source, targetExists, target, target0, all_files, idx,
                   written, runs, faulted>>

\* line 38, shutil.rmtree: one scanned entry is removed through the directory
\* fd (a file unlinked, an empty sub-directory removed).  An entry that is no
\* longer there raises.
RmtreeEntry(p) ==
    /\ pc[p] = "rmtree_entries"
    /\ \E n \in pending[p] :
        IF fdValid[p] /\ target[Path(p)].kind = "dir"
              /\ n \in DOMAIN target[Path(p)].files
        THEN /\ target' = [target EXCEPT ![Path(p)] = WithoutFile(@, n)]
             /\ pending' = [pending EXCEPT ![p] = @ \ {n}]
             /\ UNCHANGED <<pc, err>>
        ELSE /\ Raise(p)
             /\ UNCHANGED <<target, pending>>
    /\ UNCHANGED <<argc, source, targetExists, target0, all_files, idx,
                   fdValid, written, runs, faulted>>

\* mutant: lines 40-65 sit in an else branch of line 37, so that an entry that
\* existed is removed and not built again
RmtreeRmdirElse(p) ==
    /\ pc[p] = "rmtree_entries"
    /\ pending[p] = {}
    /\ IF target[Path(p)].kind = "dir" /\ DOMAIN target[Path(p)].files = {}
       THEN /\ target' = [target EXCEPT ![Path(p)] = Absent]
            /\ fdValid' = [q \in Procs |->
                             IF pc[q] = "rmtree_entries" /\ Path(q) = Path(p)
                             THEN FALSE ELSE fdValid[q]]
            /\ idx' = [idx EXCEPT ![p] = idx[p] + 1]
            /\ Goto(p, "loop")
            /\ UNCHANGED err
       ELSE /\ Raise(p)
            /\ UNCHANGED <<target, fdValid, idx>>
    /\ UNCHANGED <<argc, source, targetExists, target0, all_files,
                   pending, written, runs, faulted>>

\* line 38, shutil.rmtree: os.rmdir(path) once every scanned entry is gone.
\* It raises when the path is gone or the directory is not empty.
RmtreeRmdir(p) ==
    /\ pc[p] = "rmtree_entries"
    /\ pending[p] = {}
    /\ IF target[Path(p)].kind = "dir" /\ DOMAIN target[Path(p)].files = {}
       THEN /\ target' = [target EXCEPT ![Path(p)] = Absent]
            /\ fdValid' = [q \in Procs |->
                             IF pc[q] = "rmtree_entries" /\ Path(q) = Path(p)
                             THEN FALSE ELSE fdValid[q]]
            /\ Goto(p, "makedirs")
            /\ UNCHANGED err
       ELSE /\ Raise(p)
            /\ UNCHANGED <<target, fdValid>>
    /\ UNCHANGED <<argc, source, targetExists, target0, all_files, idx,
                   pending, written, runs, faulted>>

\* line 40: os.makedirs(asset_path, exist_ok=True)
Makedirs(p) ==
    /\ pc[p] = "makedirs"
    /\ CASE target[Path(p)].kind = "absent" ->
              /\ target' = [target EXCEPT ![Path(p)] = EmptyDir]
              /\ Goto(p, "copy")
              /\ UNCHANGED err
         [] target[Path(p)].kind = "dir" ->
              /\ Goto(p, "copy")
              /\ UNCHANGED <<target, err>>
         [] OTHER ->
              /\ Raise(p)
              /\ UNCHANGED target
    /\ UNCHANGED <<argc, source, targetExists, target0, all_files, idx,
                   pending, fdValid, written, runs, faulted>>

\* mutant: the file is copied under its own name, not as image.png
CopySourceKeepsName(p) ==
    /\ pc[p] = "copy"
    /\ IF target[Path(p)].kind = "dir"
       THEN /\ target' = [target EXCEPT ![Path(p)] =
                            WithFile(@, "source.png", FileData(Cur(p)))]
            /\ Goto(p, "write")
            /\ UNCHANGED err
       ELSE /\ Raise(p)
            /\ UNCHANGED target
    /\ UNCHANGED <<argc, source, targetExists, target0, all_files, idx,
                   pending, fdValid, written, runs, faulted>>

\* line 43: shutil.copy2(source_dir/filename, asset_path/"image.png")
CopySource(p) ==
    /\ pc[p] = "copy"
    /\ IF target[Path(p)].kind = "dir"
       THEN /\ target' = [target EXCEPT ![Path(p)] =
                            WithFile(@, "image.png", FileData(Cur(p)))]
            /\ Goto(p, "write")
            /\ UNCHANGED err
       ELSE /\ Raise(p)
            /\ UNCHANGED target
    /\ UNCHANGED <<argc, source, targetExists, target0, all_files, idx,
                   pending, fdValid, written, runs, faulted>>

\* lines 45-65: the descriptor is written, and the loop moves on
WriteContents(p) ==
    /\ pc[p] = "write"
    /\ IF target[Path(p)].kind = "dir"
       THEN /\ target' = [target EXCEPT ![Path(p)] =
                            WithFile(@, "Contents.json", Contents)]
            /\ written' = [written EXCEPT ![p] = @ \cup {Path(p)}]
            /\ idx' = [idx EXCEPT ![p] = idx[p] + 1]
            /\ Goto(p, "loop")
            /\ UNCHANGED err
       ELSE /\ Raise(p)
            /\ UNCHANGED <<target, written, idx>>
    /\ UNCHANGED <<argc, source, targetExists, target0, all_files,
                   pending, fdValid, runs, faulted>>

\* line 67: the loop is over, the run ends with status 0
Finish(p) ==
    /\ pc[p] = "loop"
    /\ idx[p] > Len(all_files[p])
    /\ Goto(p, "exit")
    /\ UNCHANGED <<argc, source, targetExists, target, target0, all_files, idx,
                   pending, fdValid, err, written, runs, faulted>>

\* A filesystem call of the loop body fails for a reason of the environment
\* (permission denied, disk full): nothing catches it.  A copy or a write
\* that fails may leave a partial file behind.
FilesystemFailure(p) ==
    /\ ~faulted
    /\ pc[p] \in {"rmtree", "rmtree_entries", "makedirs", "copy", "write"}
    /\ \E partial \in BOOLEAN :
         target' =
           IF partial /\ target[Path(p)].kind = "dir" /\ pc[p] = "copy"
           THEN [target EXCEPT ![Path(p)] = WithFile(@, "image.png", "partial bytes")]
           ELSE IF partial /\ target[Path(p)].kind = "dir" /\ pc[p] = "write"
           THEN [target EXCEPT ![Path(p)] =
                    WithFile(@, "Contents.json", TruncatedContents)]
           ELSE target
    /\ Raise(p)
    /\ faulted' = TRUE
    /\ UNCHANGED <<argc, source, targetExists, target0, all_files, idx,
                   pending, fdValid, written, runs>>

\* The operator runs the tool again, with the same arguments, after a run
\* that the environment did not disturb.
Rerun ==
    /\ pc[1] = "exit"
    /\ ~faulted
    /\ runs < MaxRuns
    /\ runs' = runs + 1
    /\ target0' = target
    /\ pc' = [pc EXCEPT ![1] = "start"]
    /\ all_files' = [all_files EXCEPT ![1] = <<>>]
    /\ idx' = [idx EXCEPT ![1] = 0]
    /\ pending' = [pending EXCEPT ![1] = {}]
    /\ fdValid' = [fdValid EXCEPT ![1] = FALSE]
    /\ err' = [err EXCEPT ![1] = "none"]
    /\ written' = [written EXCEPT ![1] = {}]
    /\ UNCHANGED <<argc, source, targetExists, target, faulted>>

Step(p) ==
    \/ CheckArgs(p)
    \/ CheckTarget(p)
    \/ ListSource(p)
    \/ SkipFile(p)
    \/ AcceptFile(p)
    \/ CheckExists(p)
    \/ RmtreeOpen(p)
    \/ RmtreeEntry(p)
    \/ RmtreeRmdir(p)
    \/ Makedirs(p)
    \/ CopySource(p)
    \/ WriteContents(p)
    \/ Finish(p)

Next ==
    \/ \E p \in Procs : Step(p)
    \/ \E p \in Procs : FilesystemFailure(p)
    \/ Rerun

Spec == Init /\ [][Next]_vars

ConcNext == \E p \in Procs : Step(p)

ConcSpec == ConcInit /\ [][ConcNext]_vars

----------------------------------------------------------------------------
(* Vocabulary of the properties *)

SourceFiles == {source[i] : i \in DOMAIN source}

\* a name the importer accepts: food_*.png
Accepted(f) == StartsWith(f, FOOD) /\ EndsWith(f, PNG)

\* the run ended at line 67 with status 0
Completed(p) == pc[p] = "exit" /\ err[p] = "none"

HasFile(entry, name) == entry.kind = "dir" /\ name \in DOMAIN entry.files

----------------------------------------------------------------------------
(* Properties *)

\* C1: after a run that completes, every accepted source file food_X.png has
\* the entry named by its name with the one ".png" extension removed, and the
\* image.png of that entry has the bytes of that file; for all accepted files
\* of the run at once.
C1_EveryAcceptedFileImported ==
    Completed(1) =>
        \A f \in SourceFiles :
            Accepted(f) =>
                /\ HasFile(target[AssetPath(Stem(f))], "image.png")
                /\ target[AssetPath(Stem(f))].files["image.png"] = FileData(f)

\* C2: after a run that completes, every entry the run wrote holds a
\* Contents.json with exactly the three records 1x, 2x, 3x in that order, each
\* universal and naming image.png, and the info record version 1, author
\* xcode, whatever the source file and whatever the entry held before.
C2_DescriptorFixed ==
    Completed(1) =>
        \A n \in written[1] :
            /\ HasFile(target[n], "Contents.json")
            /\ target[n].files["Contents.json"] =
                 [images |->
                    <<[idiom |-> "universal", scale |-> "1x", filename |-> "image.png"],
                      [idiom |-> "universal", scale |-> "2x", filename |-> "image.png"],
                      [idiom |-> "universal", scale |-> "3x", filename |-> "image.png"]>>,
                  info |-> [version |-> 1, author |-> "xcode"]]

\* C2 witness: a completed run that wrote two entries, one of them over an
\* entry that held another descriptor.
C2_Witness ==
    /\ Completed(1)
    /\ Cardinality(written[1]) >= 2
    /\ \E n \in written[1] :
         /\ HasFile(target0[n], "Contents.json")
         /\ target0[n].files["Contents.json"] = StaleContents

\* C3: a second run on the unchanged source, when the environment makes no
\* filesystem call fail, leaves target_dir exactly as the first run left it:
\* same entries, same files in each, same content.  This covers the runs that
\* stop on an entry path that is a regular file.
C3_Idempotent ==
    (runs >= 2 /\ pc[1] = "exit" /\ ~faulted) => target = target0

\* C3 witness: a second run that rewrote an entry and completed.
C3_Witness ==
    /\ runs >= 2
    /\ Completed(1)
    /\ written[1] # {}

\* C4: after a run that completes, every entry the run wrote holds exactly
\* image.png and Contents.json, whatever it held before the run.
C4_FullRebuild ==
    Completed(1) =>
        \A n \in written[1] :
            /\ target[n].kind = "dir"
            /\ DOMAIN target[n].files = {"image.png", "Contents.json"}

\* C4 witness: a completed first run that wrote an entry which held a stray
\* file and a stray sub-directory before.
C4_Witness ==
    /\ runs = 1
    /\ Completed(1)
    /\ \E n \in written[1] :
         /\ HasFile(target0[n], "stray.txt")
         /\ HasFile(target0[n], "backup")

\* C5: a listed name that does not match food_*.png is skipped: the loop
\* moves to the next name, nothing in target_dir changes and the run goes on;
\* and a run that no filesystem failure stops ends with status 0, having
\* written the entry of every conforming file and having left alone the
\* entry name of every non-conforming one.
C5_SkipDoesNotStop ==
    /\ [][\A p \in Procs :
            (/\ pc[p] = "loop"
             /\ idx[p] <= Len(all_files[p])
             /\ ~Accepted(Cur(p)))
            => (/\ pc'[p] = "loop"
                /\ idx'[p] = idx[p] + 1
                /\ err'[p] = "none"
                /\ target' = target)]_vars
    /\ [](\A f \in SourceFiles : EndsWith(f, PNG) \/ f \notin
            {all_files[1][i] : i \in DOMAIN all_files[1]})
    /\ []((/\ pc[1] = "exit"
           /\ argc >= 3
           /\ targetExists
           /\ ~faulted
           /\ \A f \in SourceFiles :
                Accepted(f) => target0[AssetPath(AssetName(f))].kind # "file")
          => (/\ ExitCode(1) = 0
              /\ \A f \in SourceFiles :
                    IF Accepted(f)
                    THEN AssetPath(AssetName(f)) \in written[1]
                    ELSE \/ \E g \in SourceFiles :
                              /\ Accepted(g)
                              /\ AssetPath(AssetName(g)) = AssetPath(AssetName(f))
                         \/ target[AssetPath(AssetName(f))] =
                              target0[AssetPath(AssetName(f))]))

\* C5 witness: a run that ended with status 0 after listing a non-conforming
\* name (logo.png or notes.txt) before a conforming file, whose entry it
\* wrote, with no entry for the non-conforming name.
C5_Witness ==
    /\ Completed(1)
    /\ \E i, j \in DOMAIN source :
         /\ i < j
         /\ ~Accepted(source[i])
         /\ Accepted(source[j])
         /\ AssetPath(AssetName(source[j])) \in written[1]
         /\ target[AssetPath(AssetName(source[i]))].kind = "absent"

\* C6: when target_dir does not exist the run ends with status 1 at the
\* check of lines 16-18, before the source is listed, and nothing exists
\* under target_dir, which is still missing.
C6_TargetMissing ==
    (~targetExists /\ pc[1] \notin {"start", "target_check"}) =>
        /\ pc[1] = "exit"
        /\ ExitCode(1) = 1
        /\ err[1] = IF argc < 3 THEN "usage" ELSE "target_missing"
        /\ all_files[1] = <<>>
        /\ idx[1] = 0
        /\ target = NoTarget

\* C6 witness: a run on a missing target_dir, with a conforming file in the
\* source, that ended at the target check.
C6_Witness ==
    /\ ~targetExists
    /\ pc[1] = "exit"
    /\ err[1] = "target_missing"
    /\ \E f \in SourceFiles : Accepted(f)

\* C7: whenever the number of arguments is not exactly two, the run ends
\* with status 1 and the usage message and target_dir is untouched.
C7_WrongArgCountIsUsageError ==
    (argc # 3 /\ pc[1] # "start") =>
        /\ pc[1] = "exit"
        /\ err[1] = "usage"
        /\ target = target0

\* C8: no step of a run changes a name of target_dir other than the entry
\* paths <identifier>.imageset of the source files the run accepts, the
\* identifier being the file name without its extension.
C8_OnlyAcceptedEntriesChange ==
    [][\A n \in TargetNames :
          n \notin {AssetPath(Stem(f)) : f \in {g \in SourceFiles : Accepted(g)}}
              => target'[n] = target[n]]_vars

\* C9: a run that a filesystem failure stops has ended, and every entry it
\* completed before the failure is still complete: image.png and
\* Contents.json.
C9_FailureKeepsCompletedEntries ==
    err[1] = "exception" =>
        /\ pc[1] = "exit"
        /\ \A n \in written[1] : Complete(target[n])

\* Companion of C8: relative to the asset_path the code itself computes
\* (line 30), no step changes a name of target_dir other than the asset_path
\* of an accepted source file.
OnlyAssetPathsChange ==
    [][\A n \in TargetNames :
          n \notin {AssetPath(AssetName(f)) : f \in {g \in SourceFiles : Accepted(g)}}
              => target'[n] = target[n]]_vars

\* no two accepted source files share an asset_path
NoCollision ==
    \A f, g \in SourceFiles :
        (Accepted(f) /\ Accepted(g) /\ f # g)
            => AssetPath(AssetName(f)) # AssetPath(AssetName(g))

\* Companion of C9: a run that a failure has stopped stays stopped with
\* target_dir as the failure left it, and, when no two accepted names collide,
\* every entry it completed earlier is still complete.
FailureIsFatalNoRollback ==
    /\ [][(err[1] = "exception" /\ err'[1] = "exception")
            => (pc'[1] = "exit" /\ target' = target /\ idx' = idx)]_vars
    /\ []((err[1] = "exception" /\ NoCollision)
            => (pc[1] = "exit" /\ \A n \in written[1] : Complete(target[n])))

AllStopped == \A p \in Procs : pc[p] = "exit"

\* C10: two runs at once on the same directories are unsafe, and the damage
\* always shows as a failed run: when both runs have ended with status 0,
\* the entry of every accepted file holds image.png and Contents.json, so an
\* entry left without one of them comes with a run that a race made fail.
C10_DamageComesWithFailure ==
    (AllStopped /\ \A p \in Procs : err[p] = "none" /\ argc >= 3 /\ targetExists) =>
        \A f \in SourceFiles :
            Accepted(f) => Complete(target[AssetPath(AssetName(f))])

\* C10 witness: with no entry path a regular file and no failure of the
\* environment, both runs have stopped, one with an uncaught filesystem
\* error and one with status 0, and the entry of an accepted file is left
\* without image.png or without Contents.json.
C10_Witness ==
    /\ AllStopped
    /\ ~faulted
    /\ \A n \in EntryNames : target0[n].kind # "file"
    /\ \E p, q \in Procs : err[p] = "exception" /\ err[q] = "none"
    /\ \E f \in SourceFiles :
         /\ Accepted(f)
         /\ ~Complete(target[AssetPath(AssetName(f))])

====
